---- MODULE Spec2Model ----
(***************************************************************************)
(* A model of dstoolbox/pipeline.py: PipelineY, SliceMixin,                *)
(* DictFeatureUnion, DataFrameFeatureUnion and the timing instrumentation  *)
(* of TimedPipeline (timing_decorator, _add_timed_sequence,                *)
(* _shed_timed_sequence).  Each class is a state machine of its own; the   *)
(* specifications SpecTimed, SpecY, SpecDict, SpecDF and SpecSlice run one *)
(* of them and hold the variables of the others still.                     *)
(***************************************************************************)
EXTENDS Integers, Sequences, FiniteSets, TLC

VARIABLES
    \* ---- TimedPipeline ----
    meth,        \* [step, method name] -> the value getattr(step, method_name) yields
    closureKind, \* per step: what __closure__ of its original methods is
    pc,          \* "idle" | "running" | "returned" | "raised": the current step-method call
    cur,         \* the inputs of the current call
    frames,      \* the Python call stack of the current call (last = innermost)
    events,      \* what happened during the current call, in order
    ret,         \* what the outermost call returned
    lastOp,      \* the last pipeline operation: "init" | "add" | "shed" | "setstate"
    lastExc,     \* the exception the last pipeline operation ended with, or "none"
    alt,         \* history: the operations so far alternate shed_timing / add_timing
    rounds,      \* history: completed shed_timing + add_timing rounds (saturating)
    \* ---- PipelineY ----
    ytParam,     \* <<y>>: what y_transformer was fitted on; <<>> when it is not fitted
    baseModel,   \* <<X, yt>>: what the base Pipeline was fitted on; <<>> when not fitted
    yHas,        \* which optional methods y_transformer and the final estimator have
    yOp,         \* the last PipelineY method called, with its arguments
    yLog,        \* the calls that method made on y_transformer and the base Pipeline
    yRet,        \* what it returned
    yExc,        \* the exception it ended with, or "none"
    \* ---- DictFeatureUnion ----
    tlist,       \* transformer_list: (name, transformer) entries, None included
    dFitted,     \* the transformers have been fitted
    dOp,         \* the last method called, with X
    dRet,        \* the dictionary it returned
    \* ---- DataFrameFeatureUnion ----
    dfList,      \* transformer_list: per entry what the transformer outputs, or None
    dfOpts,      \* ignore_index
    dfFitted,    \* the transformers have been fitted
    dfFT,        \* what the last fit_transform returned
    dfT,         \* what the last transform returned
    \* ---- SliceMixin ----
    sObj,        \* the object's 'steps' and 'transformer_list' attributes
    sIdx,        \* the last index given to __getitem__
    sRet,        \* what __getitem__ returned
    sExc         \* the exception it raised, or "none"

varsTimed == <<meth, closureKind, pc, cur, frames, events, ret, lastOp, lastExc, alt, rounds>>

varsY == <<ytParam, baseModel, yHas, yOp, yLog, yRet, yExc>>

varsDict == <<tlist, dFitted, dOp, dRet>>

varsDF == <<dfList, dfOpts, dfFitted, dfFT, dfT>>

varsSlice == <<sObj, sIdx, sRet, sExc>>

vars == <<varsTimed, varsY, varsDict, varsDF, varsSlice>>

notTimed == <<varsY, varsDict, varsDF, varsSlice>>
notY == <<varsTimed, varsDict, varsDF, varsSlice>>
notDict == <<varsTimed, varsY, varsDF, varsSlice>>
notDF == <<varsTimed, varsY, varsDict, varsSlice>>
notSlice == <<varsTimed, varsY, varsDict, varsDF>>

-----------------------------------------------------------------------------
(***************************************************************************)
(* Bounds.                                                                 *)
(***************************************************************************)
NSteps == 2
MaxDepth == 2
MaxRounds == 2
MaxX == 2
MaxY == 2
MaxT == 2
MaxDF == 3
MaxSamples == 2
MaxLen == 2

-----------------------------------------------------------------------------
(***************************************************************************)
(* TimedPipeline: the timing instrumentation.                              *)
(***************************************************************************)

\* method_names of _add_timed_sequence and _shed_timed_sequence, in loop order.
MethodNames == <<"fit", "transform", "fit_transform", "predict", "predict_proba">>

MethodSet == {MethodNames[i] : i \in 1..Len(MethodNames)}

StepIds == 1..NSteps

\* name[:24] in the wrapper's message.
NameLimit == 24

\* The names of the steps: step 1 has a short name, the others a name of 26 characters.
StepName(s) == IF s = 1 THEN <<"c", "l", "f">> ELSE [i \in 1..26 |-> "x"]

Take(seq, n) == IF Len(seq) <= n THEN seq ELSE SubSeq(seq, 1, n)

\* The estimators a step may be: a transformer whose methods are plain functions
\* (their __closure__ is None), a classifier whose methods are closures (decorated
\* or delegating methods), or None as a step, which has none of the methods.
Profiles == { [methods |-> {"fit", "transform", "fit_transform"}, closure |-> "none"],
              [methods |-> {"fit", "predict", "predict_proba"}, closure |-> "cells"],
              [methods |-> {}, closure |-> "none"] }

Absent == [base |-> "absent", depth |-> 0]
Original == [base |-> "orig", depth |-> 0]

\* hasattr(step, method_name)
HasAttr(m, s, n) == m[<<s, n>>] # Absent

\* timing_decorator: func = getattr(est, method_name) is captured by the closure of a
\* new wrapper; the value is one wrapper more around what the attribute was.
TimingDecorator(v) == [v EXCEPT !.depth = @ + 1]

\* _add_timed_sequence: every method the step has is replaced by
\* types.MethodType(timing_decorator(...), step).
AddTimedSequence(m) ==
    [p \in DOMAIN m |-> IF m[p] # Absent THEN TimingDecorator(m[p]) ELSE m[p]]

\* decorated.__closure__[0].cell_contents.  For a wrapper, the free variables are
\* (func, method_name, name, sink), so cell 0 is func.  For an original method
\* __closure__ is that of the estimator's function: None for a plain function
\* (None[0] raises TypeError), or cells of its own, whose first holds an object
\* foreign to the timing code.  That object has no __closure__ (AttributeError).
ClosureCell0(v, kind) ==
    IF v.depth > 0 THEN [exc |-> "none", val |-> [v EXCEPT !.depth = @ - 1]]
    ELSE IF v.base = "orig" /\ kind = "cells"
         THEN [exc |-> "none", val |-> [base |-> "foreign", depth |-> 0]]
    ELSE IF v.base = "orig" THEN [exc |-> "TypeError", val |-> v]
    ELSE [exc |-> "AttributeError", val |-> v]

\* The (step, method name) pairs in the order the two nested loops visit them.
LoopPairs ==
    [i \in 1..(NSteps * Len(MethodNames)) |->
        <<((i - 1) \div Len(MethodNames)) + 1, MethodNames[((i - 1) % Len(MethodNames)) + 1]>>]

\* _shed_timed_sequence from the i-th pair on: an exception ends the loops and
\* leaves the attributes set so far as they are.
RECURSIVE ShedFrom(_, _, _)
ShedFrom(m, kinds, i) ==
    IF i > Len(LoopPairs) THEN [meth |-> m, exc |-> "none"]
    ELSE LET p == LoopPairs[i]
             c == ClosureCell0(m[p], kinds[p[1]])
         IN  IF m[p] = Absent THEN ShedFrom(m, kinds, i + 1)
             ELSE IF c.exc # "none" THEN [meth |-> m, exc |-> c.exc]
             ELSE ShedFrom([m EXCEPT ![p] = c.val], kinds, i + 1)

\* A shed whose loops visit only the last (step, method) pair.
ShedLastPairOnly(m, kinds) == ShedFrom(m, kinds, Len(LoopPairs))

ShedTimedSequence(m, kinds) == ShedFrom(m, kinds, 1)

\* The estimators as given to the constructor: no attribute patched yet.
RawMethods(profile) ==
    [p \in StepIds \X MethodSet |-> IF p[2] \in profile[p[1]].methods THEN Original ELSE Absent]

NoCall == [step |-> 0, method |-> "", args |-> <<>>, raises |-> FALSE, result |-> "none"]

\* What the caller passes: fit and fit_transform take (X, y), the others (X).
CallerArgs(n) == IF n \in {"fit", "fit_transform"} THEN <<"X", "y">> ELSE <<"X">>

\* TimedPipeline.__init__: self.steps = _add_timed_sequence(steps, sink).
InitTimed ==
    /\ \E profile \in [StepIds -> Profiles] :
          /\ meth = AddTimedSequence(RawMethods(profile))
          /\ closureKind = [s \in StepIds |-> profile[s].closure]
    /\ pc = "idle"
    /\ cur = NoCall
    /\ frames = <<>>
    /\ events = <<>>
    /\ ret = "none"
    /\ lastOp = "init"
    /\ lastExc = "none"
    /\ alt = TRUE
    /\ rounds = 0

ResetCall ==
    /\ pc' = "idle"
    /\ cur' = NoCall
    /\ frames' = <<>>
    /\ events' = <<>>
    /\ ret' = "none"

MaxDepthOf(m) ==
    LET ds == {m[p].depth : p \in DOMAIN m}
    IN  CHOOSE d \in ds : \A e \in ds : e <= d

\* TimedPipeline.add_timing
AddTiming ==
    /\ pc # "running"
    /\ MaxDepthOf(meth) < MaxDepth
    /\ meth' = AddTimedSequence(meth)
    /\ lastOp' = "add"
    /\ lastExc' = "none"
    /\ alt' = (alt /\ lastOp = "shed")
    /\ rounds' = IF alt /\ lastOp = "shed" /\ rounds < MaxRounds THEN rounds + 1 ELSE rounds
    /\ ResetCall
    /\ UNCHANGED closureKind
    /\ UNCHANGED notTimed

\* TimedPipeline.shed_timing
ShedTiming ==
    /\ pc # "running"
    /\ LET r == ShedTimedSequence(meth, closureKind)
       IN  /\ meth' = r.meth
           /\ lastExc' = r.exc
    /\ lastOp' = "shed"
    /\ alt' = (alt /\ lastOp \in {"init", "add"})
    /\ ResetCall
    /\ UNCHANGED <<closureKind, rounds>>
    /\ UNCHANGED notTimed

\* TimedPipeline.__setstate__: state['steps'] are either the step objects the
\* pipeline already holds, or fresh copies of them with nothing patched (as after
\* unpickling, where an instance attribute that is a bound method is restored by
\* getattr on the class).
SetState ==
    /\ pc # "running"
    /\ \E fresh \in BOOLEAN :
          IF fresh
          THEN meth' = AddTimedSequence([p \in DOMAIN meth |->
                           IF meth[p] = Absent THEN Absent ELSE Original])
          ELSE /\ MaxDepthOf(meth) < MaxDepth
               /\ meth' = AddTimedSequence(meth)
    /\ lastOp' = "setstate"
    /\ lastExc' = "none"
    /\ alt' = FALSE
    /\ ResetCall
    /\ UNCHANGED <<closureKind, rounds>>
    /\ UNCHANGED notTimed

-----------------------------------------------------------------------------
(***************************************************************************)
(* A call of step.method(args), one Python step at a time.                *)
(***************************************************************************)

Ev(e, k, a, v, msg) == [ev |-> e, layer |-> k, args |-> a, val |-> v, msg |-> msg]

NoMsg == [method |-> "", name |-> <<>>, shape |-> FALSE]

\* result.shape exists for arrays; fit returns the estimator, which has none.
HasShape(result) == result = "array"

\* The message of the wrapper: intro with method_name and name[:24], and the shape
\* when the result has one (the elapsed time, a measurement, is left out).
WrapperMessage(s, n, result) ==
    [method |-> n, name |-> Take(StepName(s), NameLimit), shape |-> HasShape(result)]

\* A wrapper that passes all of args on, the bound instance included.
WrapperArgsUnstripped(args) == args

\* func called with args[1:] and kwargs: the instance types.MethodType put first is dropped.
WrapperArgs(args) == Tail(args)

\* return result
WrapperResult(frame) == frame.result

\* Calling a value with args: a bound method of a wrapper gets the step first.
FrameFor(k, args) ==
    [layer |-> k, args |-> IF k > 0 THEN <<"self">> \o args ELSE args,
     phase |-> "start", result |-> "none"]

\* The caller's step.method(args).
CallMethod ==
    /\ pc # "running"
    /\ \E s \in StepIds, n \in MethodSet, outcome \in {"raise", "array", "estimator"} :
          /\ HasAttr(meth, s, n)
          /\ cur' = [step |-> s, method |-> n, args |-> CallerArgs(n),
                     raises |-> (outcome = "raise"),
                     result |-> IF outcome = "raise" THEN "none" ELSE outcome]
          /\ frames' = <<FrameFor(meth[<<s, n>>].depth, CallerArgs(n))>>
          /\ events' = <<Ev("enter", meth[<<s, n>>].depth, CallerArgs(n), "none", NoMsg)>>
    /\ pc' = "running"
    /\ ret' = "none"
    /\ UNCHANGED <<meth, closureKind, lastOp, lastExc, alt, rounds>>
    /\ UNCHANGED notTimed

Top == frames[Len(frames)]
Below == SubSeq(frames, 1, Len(frames) - 1)

\* The innermost frame ends, returning v or raising: the caller's frame resumes, or
\* the whole call is over.
Deliver(raised, v) ==
    IF Len(frames) = 1
    THEN /\ frames' = <<>>
         /\ pc' = IF raised THEN "raised" ELSE "returned"
         /\ ret' = IF raised THEN "none" ELSE v
    ELSE /\ frames' = [Below EXCEPT ![Len(Below)] =
                         [@ EXCEPT !.phase = IF raised THEN "funcraised" ELSE "funcdone",
                                   !.result = IF raised THEN "none" ELSE v]]
         /\ pc' = pc
         /\ ret' = ret

\* wrapper: tic = time.time(); result = func called with args[1:] and kwargs -- the call.
WrapperCall ==
    /\ pc = "running"
    /\ Top.layer > 0
    /\ Top.phase = "start"
    /\ LET passed == WrapperArgs(Top.args)
       IN  /\ frames' = [frames EXCEPT ![Len(frames)] = [@ EXCEPT !.phase = "waiting"]]
                          \o <<FrameFor(Top.layer - 1, passed)>>
           /\ events' = Append(events, Ev("callfunc", Top.layer, passed, "none", NoMsg))
    /\ UNCHANGED <<meth, closureKind, pc, cur, ret, lastOp, lastExc, alt, rounds>>
    /\ UNCHANGED notTimed

\* The method that was there before any wrapper runs: the estimator's own method,
\* or the foreign object a shed without timing has put in its place.
OrigRun ==
    /\ pc = "running"
    /\ Top.layer = 0
    /\ events' = Append(events,
                    Ev(IF meth[<<cur.step, cur.method>>].base = "orig" THEN "orig" ELSE "foreign",
                       0, Top.args, IF cur.raises THEN "none" ELSE cur.result, NoMsg))
    /\ Deliver(cur.raises, cur.result)
    /\ UNCHANGED <<meth, closureKind, cur, lastOp, lastExc, alt, rounds>>
    /\ UNCHANGED notTimed

\* wrapper: toc = time.time(); the message is built; sink(out).
WrapperSink ==
    /\ pc = "running"
    /\ Top.layer > 0
    /\ Top.phase = "funcdone"
    /\ frames' = [frames EXCEPT ![Len(frames)] = [@ EXCEPT !.phase = "sunk"]]
    /\ events' = Append(events, Ev("sink", Top.layer, <<>>, "none",
                                   WrapperMessage(cur.step, cur.method, Top.result)))
    /\ UNCHANGED <<meth, closureKind, pc, cur, ret, lastOp, lastExc, alt, rounds>>
    /\ UNCHANGED notTimed

\* wrapper: return result
WrapperReturn ==
    /\ pc = "running"
    /\ Top.layer > 0
    /\ Top.phase = "sunk"
    /\ events' = Append(events, Ev("return", Top.layer, <<>>, WrapperResult(Top), NoMsg))
    /\ Deliver(FALSE, WrapperResult(Top))
    /\ UNCHANGED <<meth, closureKind, cur, lastOp, lastExc, alt, rounds>>
    /\ UNCHANGED notTimed

\* wrapper: func raised; nothing catches it, the exception leaves the wrapper.
WrapperRaise ==
    /\ pc = "running"
    /\ Top.layer > 0
    /\ Top.phase = "funcraised"
    /\ events' = Append(events, Ev("raise", Top.layer, <<>>, "none", NoMsg))
    /\ Deliver(TRUE, "none")
    /\ UNCHANGED <<meth, closureKind, cur, lastOp, lastExc, alt, rounds>>
    /\ UNCHANGED notTimed

NextTimed ==
    \/ AddTiming
    \/ ShedTiming
    \/ SetState
    \/ CallMethod
    \/ WrapperCall
    \/ OrigRun
    \/ WrapperSink
    \/ WrapperReturn
    \/ WrapperRaise

\* The timing instrumentation at rest: a pipeline without steps, nothing called.
IdleTimed ==
    /\ meth = [p \in StepIds \X MethodSet |-> Absent]
    /\ closureKind = [s \in StepIds |-> "none"]
    /\ pc = "idle"
    /\ cur = NoCall
    /\ frames = <<>>
    /\ events = <<>>
    /\ ret = "none"
    /\ lastOp = "init"
    /\ lastExc = "none"
    /\ alt = TRUE
    /\ rounds = 0

-----------------------------------------------------------------------------
(***************************************************************************)
(* PipelineY.  y_transformer and the base Pipeline are objects of the      *)
(* caller and of the wrapped library: what they compute is kept symbolic,  *)
(* a term that names the operation, the fitted state and the argument.     *)
(***************************************************************************)

Xs == 1..MaxX
Ys == 1..MaxY

Unfitted == <<>>

RawY(y) == <<"y", y>>

\* self.y_transformer.fit(y): the transformer is now fitted on y.
TransformerFit(y) == <<y>>

\* PipelineY.y_transform: self.y_transformer.transform(y)
YTransform(param, y) == <<"transformed", param, y>>

\* PipelineY.y_inverse_transform: self.y_transformer.inverse_transform(yt)
YInverseTransform(param, yt) == <<"inverse", param, yt>>

\* super().predict(X), super().transform(X), super().score(X, yt) of the fitted base.
BasePredict(model, X) == <<"predicted", model, X>>
BaseTransform(model, X) == <<"Xt", model, X>>
BaseScore(model, X, yt) == <<"score", model, X, yt>>

YCall(name, a, b) == [call |-> name, a |-> a, b |-> b]

NoYOp == [op |-> "none", X |-> 0, y |-> 0, inverse |-> FALSE]

\* PipelineY.__init__ has returned: y_transformer has a transform method (or the
\* constructor raised TypeError); it may have been fitted before.
InitY ==
    /\ ytParam \in {Unfitted} \cup {TransformerFit(y) : y \in Ys}
    /\ baseModel = Unfitted
    /\ yHas \in [inverse_transform : BOOLEAN, predict : BOOLEAN, score : BOOLEAN]
    /\ yOp = NoYOp
    /\ yLog = <<>>
    /\ yRet = "none"
    /\ yExc = "none"

IdleY ==
    /\ ytParam = Unfitted
    /\ baseModel = Unfitted
    /\ yHas = [inverse_transform |-> FALSE, predict |-> FALSE, score |-> FALSE]
    /\ yOp = NoYOp
    /\ yLog = <<>>
    /\ yRet = "none"
    /\ yExc = "none"

\* A fit that hands the raw targets to the base Pipeline.
FitCallsRaw(X, y) ==
    << YCall("y_transformer.fit", RawY(y), "none"),
       YCall("y_transformer.transform", RawY(y), "none"),
       YCall("base.fit", X, RawY(y)) >>

\* PipelineY.fit: the calls it makes, in order.
FitCalls(X, y) ==
    << YCall("y_transformer.fit", RawY(y), "none"),
       YCall("y_transformer.transform", RawY(y), "none"),
       YCall("base.fit", X, YTransform(TransformerFit(y), RawY(y))) >>

\* PipelineY.fit
Fit ==
    \E X \in Xs, y \in Ys :
        /\ yOp' = [op |-> "fit", X |-> X, y |-> y, inverse |-> FALSE]
        /\ ytParam' = TransformerFit(y)
        /\ yLog' = FitCalls(X, y)
        /\ baseModel' = <<X, yLog'[3].b>>
        /\ yRet' = "self"
        /\ yExc' = "none"
        /\ UNCHANGED yHas
        /\ UNCHANGED notY

\* PipelineY.fit_transform: self.fit(X, y), then self.transform(X).
FitTransform ==
    \E X \in Xs, y \in Ys :
        /\ yOp' = [op |-> "fit_transform", X |-> X, y |-> y, inverse |-> FALSE]
        /\ ytParam' = TransformerFit(y)
        /\ yLog' = FitCalls(X, y) \o <<YCall("base.transform", X, "none")>>
        /\ baseModel' = <<X, yLog'[3].b>>
        /\ yRet' = BaseTransform(baseModel', X)
        /\ yExc' = "none"
        /\ UNCHANGED yHas
        /\ UNCHANGED notY

\* A predict that applies inverse_transform whatever inverse says.
PredictValueAlwaysInverse(param, pred, inverse) == YInverseTransform(param, pred)

\* PipelineY.predict: y_pred, inverted when inverse is true.
PredictValue(param, pred, inverse) ==
    IF inverse THEN YInverseTransform(param, pred) ELSE pred

\* PipelineY.predict.  if_delegate_has_method: without a predict of the final
\* estimator the attribute does not exist.  An unfitted base or transformer raises.
Predict ==
    \E X \in Xs, inverse \in BOOLEAN :
        /\ yOp' = [op |-> "predict", X |-> X, y |-> 0, inverse |-> inverse]
        /\ IF ~yHas.predict
           THEN /\ yLog' = <<>>
                /\ yExc' = "AttributeError"
                /\ yRet' = "none"
           ELSE IF baseModel = Unfitted
           THEN /\ yLog' = <<YCall("base.predict", X, "none")>>
                /\ yExc' = "NotFittedError"
                /\ yRet' = "none"
           ELSE IF inverse /\ ~yHas.inverse_transform
           THEN /\ yLog' = <<YCall("base.predict", X, "none")>>
                /\ yExc' = "AttributeError"
                /\ yRet' = "none"
           ELSE /\ yLog' = <<YCall("base.predict", X, "none")>> \o
                            (IF inverse
                             THEN <<YCall("y_transformer.inverse_transform",
                                          BasePredict(baseModel, X), "none")>>
                             ELSE <<>>)
                /\ yExc' = "none"
                /\ yRet' = PredictValue(ytParam, BasePredict(baseModel, X), inverse)
        /\ UNCHANGED <<ytParam, baseModel, yHas>>
        /\ UNCHANGED notY

\* PipelineY.score: the calls it makes, in order.
ScoreCalls(param, X, y) ==
    << YCall("y_transformer.transform", RawY(y), "none"),
       YCall("base.score", X, YTransform(param, RawY(y))) >>

\* PipelineY.score
Score ==
    \E X \in Xs, y \in Ys :
        /\ yOp' = [op |-> "score", X |-> X, y |-> y, inverse |-> FALSE]
        /\ IF ~yHas.score
           THEN /\ yLog' = <<>>
                /\ yExc' = "AttributeError"
                /\ yRet' = "none"
           ELSE IF ytParam = Unfitted
           THEN /\ yLog' = <<YCall("y_transformer.transform", RawY(y), "none")>>
                /\ yExc' = "NotFittedError"
                /\ yRet' = "none"
           ELSE IF baseModel = Unfitted
           THEN /\ yLog' = ScoreCalls(ytParam, X, y)
                /\ yExc' = "NotFittedError"
                /\ yRet' = "none"
           ELSE /\ yLog' = ScoreCalls(ytParam, X, y)
                /\ yExc' = "none"
                /\ yRet' = BaseScore(baseModel, X, yLog'[Len(yLog')].b)
        /\ UNCHANGED <<ytParam, baseModel, yHas>>
        /\ UNCHANGED notY

NextY ==
    \/ Fit
    \/ FitTransform
    \/ Predict
    \/ Score

-----------------------------------------------------------------------------
(***************************************************************************)
(* DictFeatureUnion.                                                       *)
(***************************************************************************)

\* Step names and the keys of nested dictionaries.
Names == {"a", "b", "c"}

\* A transformer_list entry: None, a transformer with a plain output, or one whose
\* output is a dictionary (a nested DictFeatureUnion) with the given keys.
Entries ==
    [name : Names, kind : {"none"}, keys : {{}}]
    \cup [name : Names, kind : {"plain"}, keys : {{}}]
    \cup [name : Names, kind : {"dict"}, keys : SUBSET Names]

SeqsUpTo(S, n) == UNION {[1..k -> S] : k \in 0..n}

\* _validate_transformers (the constructor, fit_transform): names are unique.
UniqueNames(tl) == \A i, j \in DOMAIN tl : tl[i].name = tl[j].name => i = j

\* What the transformer at position i returns for X (_transform_one,
\* _fit_transform_one): a value, or a dictionary of values.
Output(tl, i, X) ==
    IF tl[i].kind = "dict"
    THEN [dict |-> TRUE, val |-> [k \in tl[i].keys |-> <<"out", i, k, X>>]]
    ELSE [dict |-> FALSE, val |-> <<"out", i, "", X>>]

\* The positions self._iter() yields: the entries whose transformer is not None.
RECURSIVE IterFrom(_, _)
IterFrom(tl, i) ==
    IF i > Len(tl) THEN <<>>
    ELSE (IF tl[i].kind # "none" THEN <<i>> ELSE <<>>) \o IterFrom(tl, i + 1)

Iter(tl) == IterFrom(tl, 1)

\* Parallel(...)(delayed(_transform_one)(...) for ... in self._iter())
RunAll(tl, X) == [j \in 1..Len(Iter(tl)) |-> Output(tl, Iter(tl)[j], X)]

\* Xt.update(xs)
DictUpdate(d, e) ==
    [k \in DOMAIN d \cup DOMAIN e |-> IF k \in DOMAIN e THEN e[k] ELSE d[k]]

Min(a, b) == IF a <= b THEN a ELSE b

\* _update_transformed_dict: for (name, _), xs in zip(self.transformer_list, Xs),
\* from the j-th pair on.  zip pairs by position and stops with the shorter one.
RECURSIVE UpdateFrom(_, _, _, _)
UpdateFrom(Xt, tl, outs, j) ==
    IF j > Min(Len(tl), Len(outs)) THEN Xt
    ELSE UpdateFrom(IF outs[j].dict
                    THEN DictUpdate(Xt, outs[j].val)
                    ELSE DictUpdate(Xt, [k \in {tl[j].name} |-> outs[j].val]),
                    tl, outs, j + 1)

EmptyDict == [k \in {} |-> <<>>]

UpdateTransformedDict(tl, outs) == UpdateFrom(EmptyDict, tl, outs, 1)

NoDOp == [op |-> "none", X |-> 0]

InitDict ==
    /\ tlist \in {tl \in SeqsUpTo(Entries, MaxT) : UniqueNames(tl)}
    /\ dFitted \in BOOLEAN
    /\ dOp = NoDOp
    /\ dRet = EmptyDict

IdleDict ==
    /\ tlist = <<>>
    /\ dFitted = FALSE
    /\ dOp = NoDOp
    /\ dRet = EmptyDict

\* DictFeatureUnion.fit_transform
DictFitTransform ==
    \E X \in Xs :
        /\ dOp' = [op |-> "fit_transform", X |-> X]
        /\ dRet' = IF RunAll(tlist, X) = <<>> THEN EmptyDict
                   ELSE UpdateTransformedDict(tlist, RunAll(tlist, X))
        /\ dFitted' = TRUE
        /\ UNCHANGED tlist
        /\ UNCHANGED notDict

\* DictFeatureUnion.transform (an unfitted transformer raises and nothing is returned)
DictTransform ==
    \E X \in Xs :
        /\ dFitted \/ Iter(tlist) = <<>>
        /\ dOp' = [op |-> "transform", X |-> X]
        /\ dRet' = IF RunAll(tlist, X) = <<>> THEN EmptyDict
                   ELSE UpdateTransformedDict(tlist, RunAll(tlist, X))
        /\ UNCHANGED <<tlist, dFitted>>
        /\ UNCHANGED notDict

NextDict ==
    \/ DictFitTransform
    \/ DictTransform

-----------------------------------------------------------------------------
(***************************************************************************)
(* DataFrameFeatureUnion.                                                  *)
(***************************************************************************)

\* What a transformer outputs (one column each), or "none" for None in its place.
OutputKinds == {"none", "sparse", "dataframe", "series", "ndarray"}

NoResult == [container |-> "none", rows |-> 0, cols |-> 0, index |-> "n/a"]

\* The outputs of the transformers that are run (self._iter() skips None).
DFRunAll(l) == SelectSeq(l, LAMBDA k : k # "none")

AnyOf(outs, kinds) == \E i \in DOMAIN outs : outs[i] \in kinds
AllOf(outs, kinds) == \A i \in DOMAIN outs : outs[i] \in kinds

\* DataFrameFeatureUnion.fit_transform: what is returned for the outputs outs.
DFStackFitTransform(outs, n, ignore_index) ==
    IF outs = <<>>
    THEN [container |-> "ndarray", rows |-> n, cols |-> 0, index |-> "n/a"]
    ELSE IF AnyOf(outs, {"sparse"})
    THEN [container |-> "csr", rows |-> n, cols |-> Len(outs), index |-> "n/a"]
    ELSE IF AllOf(outs, {"dataframe", "series"})
    THEN [container |-> "dataframe", rows |-> n, cols |-> Len(outs),
          index |-> IF ignore_index THEN "reset" ELSE "kept"]
    ELSE [container |-> "ndarray", rows |-> n, cols |-> Len(outs), index |-> "n/a"]

\* A transform that takes only pd.DataFrame outputs, not pd.Series, for dataframes.
DFStackTransformNoSeries(outs, n, ignore_index) ==
    IF outs = <<>>
    THEN [container |-> "ndarray", rows |-> n, cols |-> 0, index |-> "n/a"]
    ELSE IF AnyOf(outs, {"sparse"})
    THEN [container |-> "csr", rows |-> n, cols |-> Len(outs), index |-> "n/a"]
    ELSE IF AllOf(outs, {"dataframe"})
    THEN [container |-> "dataframe", rows |-> n, cols |-> Len(outs),
          index |-> IF ignore_index THEN "reset" ELSE "kept"]
    ELSE [container |-> "ndarray", rows |-> n, cols |-> Len(outs), index |-> "n/a"]

\* DataFrameFeatureUnion.transform: what is returned for the outputs outs.
DFStackTransform(outs, n, ignore_index) ==
    IF outs = <<>>
    THEN [container |-> "ndarray", rows |-> n, cols |-> 0, index |-> "n/a"]
    ELSE IF AnyOf(outs, {"sparse"})
    THEN [container |-> "csr", rows |-> n, cols |-> Len(outs), index |-> "n/a"]
    ELSE IF AllOf(outs, {"dataframe", "series"})
    THEN [container |-> "dataframe", rows |-> n, cols |-> Len(outs),
          index |-> IF ignore_index THEN "reset" ELSE "kept"]
    ELSE [container |-> "ndarray", rows |-> n, cols |-> Len(outs), index |-> "n/a"]

\* DataFrameFeatureUnion.__init__
InitDF ==
    /\ dfList \in SeqsUpTo(OutputKinds, MaxDF)
    /\ dfOpts \in [ignore_index : BOOLEAN]
    /\ dfFitted \in BOOLEAN
    /\ dfFT = NoResult
    /\ dfT = NoResult

IdleDF ==
    /\ dfList = <<>>
    /\ dfOpts = [ignore_index |-> TRUE]
    /\ dfFitted = FALSE
    /\ dfFT = NoResult
    /\ dfT = NoResult

\* DataFrameFeatureUnion.fit_transform on an X of n samples
DFFitTransform ==
    \E n \in 1..MaxSamples :
        /\ dfFT' = DFStackFitTransform(DFRunAll(dfList), n, dfOpts.ignore_index)
        /\ dfFitted' = TRUE
        /\ UNCHANGED <<dfList, dfOpts, dfT>>
        /\ UNCHANGED notDF

\* DataFrameFeatureUnion.transform on an X of n samples (an unfitted transformer
\* raises and nothing is returned)
DFTransform ==
    \E n \in 1..MaxSamples :
        /\ dfFitted \/ DFRunAll(dfList) = <<>>
        /\ dfT' = DFStackTransform(DFRunAll(dfList), n, dfOpts.ignore_index)
        /\ UNCHANGED <<dfList, dfOpts, dfFitted, dfFT>>
        /\ UNCHANGED notDF

NextDF ==
    \/ DFFitTransform
    \/ DFTransform

-----------------------------------------------------------------------------
(***************************************************************************)
(* SliceMixin.                                                             *)
(***************************************************************************)

\* An attribute: missing, or a list of (name, estimator) pairs.  The estimators
\* are told apart by the attribute and the position they were put at.
Missing == [has |-> FALSE, list |-> <<>>]

PairLists(attr) ==
    {[has |-> TRUE, list |-> [i \in DOMAIN ns |-> <<ns[i], <<attr, i>>>>]] :
        ns \in SeqsUpTo({"a", "b"}, MaxLen)}

None == <<>>
Some(n) == <<n>>

\* The indices given: a name, an integer, or slice(start, stop) with None allowed.
StrIdx(s) == [type |-> "str", s |-> s, i |-> 0, start |-> None, stop |-> None]
IntIdx(i) == [type |-> "int", s |-> "", i |-> i, start |-> None, stop |-> None]
SliceIdx(a, b) == [type |-> "slice", s |-> "", i |-> 0, start |-> a, stop |-> b]

SliceBounds == {None} \cup {Some(n) : n \in (0 - MaxLen - 1)..(MaxLen + 1)}

Indices ==
    {StrIdx(s) : s \in {"a", "b", "z"}}
    \cup {IntIdx(i) : i \in (0 - MaxLen - 1)..(MaxLen + 1)}
    \cup {SliceIdx(a, b) : a \in SliceBounds, b \in SliceBounds}

NoneRet == [kind |-> "none", est |-> <<>>, list |-> <<>>]
EstRet(e) == [kind |-> "estimator", est |-> e, list |-> <<>>]
ListRet(l) == [kind |-> "list", est |-> <<>>, list |-> l]

\* getattr(self, 'steps', False) or getattr(self, 'transformer_list', False):
\* `or` yields its second operand when the first is falsy, and False and the
\* empty list are both falsy.  The result is falsy when has is FALSE here.
Container(o) ==
    IF o.steps.has /\ o.steps.list # <<>> THEN o.steps
    ELSE IF o.transformer_list.has /\ o.transformer_list.list # <<>> THEN o.transformer_list
    ELSE Missing

\* dict(container)[idx]: a later pair with the same name replaces an earlier one.
DictLookup(l, s) ==
    LET at == {i \in DOMAIN l : l[i][1] = s}
    IN  IF at = {} THEN [exc |-> "KeyError", ret |-> NoneRet]
        ELSE [exc |-> "none", ret |-> EstRet(l[CHOOSE i \in at : \A j \in at : j <= i][2])]

Clamp(x, lo, hi) == IF x < lo THEN lo ELSE IF x > hi THEN hi ELSE x

\* container[idx] for a slice without step: a negative bound counts from the end,
\* both bounds are clamped to the list.
ListSlice(l, a, b) ==
    LET n == Len(l)
        norm(x, dflt) == IF x = None THEN dflt
                         ELSE IF x[1] < 0 THEN Clamp(x[1] + n, 0, n)
                         ELSE Clamp(x[1], 0, n)
        lo == norm(a, 0)
        hi == norm(b, n)
    IN  [exc |-> "none", ret |-> ListRet(IF lo < hi THEN SubSeq(l, lo + 1, hi) ELSE <<>>)]

\* container[idx][1] for an integer: a negative index counts from the end.
ListItem(l, i) ==
    LET n == Len(l)
        k == IF i < 0 THEN i + n ELSE i
    IN  IF k < 0 \/ k >= n THEN [exc |-> "IndexError", ret |-> NoneRet]
        ELSE [exc |-> "none", ret |-> EstRet(l[k + 1][2])]

\* SliceMixin.__getitem__
GetItemResult(o, idx) ==
    IF ~Container(o).has THEN [exc |-> "AttributeError", ret |-> NoneRet]
    ELSE IF idx.type = "str" THEN DictLookup(Container(o).list, idx.s)
    ELSE IF idx.type = "slice" THEN ListSlice(Container(o).list, idx.start, idx.stop)
    ELSE ListItem(Container(o).list, idx.i)

InitSlice ==
    /\ sObj \in [steps : {Missing} \cup PairLists("steps"),
                 transformer_list : {Missing} \cup PairLists("transformer_list")]
    /\ sIdx = StrIdx("")
    /\ sRet = NoneRet
    /\ sExc = "none"

IdleSlice ==
    /\ sObj = [steps |-> Missing, transformer_list |-> Missing]
    /\ sIdx = StrIdx("")
    /\ sRet = NoneRet
    /\ sExc = "none"

GetItem ==
    \E idx \in Indices :
        /\ sIdx' = idx
        /\ sRet' = GetItemResult(sObj, idx).ret
        /\ sExc' = GetItemResult(sObj, idx).exc
        /\ UNCHANGED sObj
        /\ UNCHANGED notSlice

NextSlice == GetItem

-----------------------------------------------------------------------------
(***************************************************************************)
(* The specifications.                                                     *)
(***************************************************************************)

InitSpecTimed == InitTimed /\ IdleY /\ IdleDict /\ IdleDF /\ IdleSlice

SpecTimed == InitSpecTimed /\ [][NextTimed]_vars

InitSpecY == InitY /\ IdleTimed /\ IdleDict /\ IdleDF /\ IdleSlice

SpecY == InitSpecY /\ [][NextY]_vars

InitSpecDict == InitDict /\ IdleTimed /\ IdleY /\ IdleDF /\ IdleSlice

SpecDict == InitSpecDict /\ [][NextDict]_vars

InitSpecDF == InitDF /\ IdleTimed /\ IdleY /\ IdleDict /\ IdleSlice

SpecDF == InitSpecDF /\ [][NextDF]_vars

InitSpecSlice == InitSlice /\ IdleTimed /\ IdleY /\ IdleDict /\ IdleDF

SpecSlice == InitSpecSlice /\ [][NextSlice]_vars

-----------------------------------------------------------------------------
(***************************************************************************)
(* Properties of the timing instrumentation.                               *)
(***************************************************************************)

PresentPairs == {p \in DOMAIN meth : meth[p] # Absent}

\* The positions in events of the events e of wrapper layer k.
EvIdx(e, k) == {i \in DOMAIN events : events[i].ev = e /\ events[i].layer = k}

Sinks == {i \in DOMAIN events : events[i].ev = "sink"}

BaseRuns == {i \in DOMAIN events : events[i].ev \in {"orig", "foreign"}}

WrapperLayers == {events[i].layer : i \in DOMAIN events} \ {0}

\* Where the func of wrapper layer k returned: the wrapper below it, or the method
\* that was there before any wrapper.
FuncReturned(k) ==
    IF k = 1 THEN {i \in BaseRuns : ~cur.raises} ELSE EvIdx("return", k - 1)

\* C1: from the freshly constructed state, through any number of alternating
\* shed_timing / add_timing rounds: after shed_timing every method a step has is
\* the original method again and a call sends nothing to sink; after add_timing
\* (as after construction) every method carries one wrapper and a call that
\* returns has sent one message.  Neither operation raises.
C1_ShedAddRoundTrip ==
    alt =>
        /\ lastExc = "none"
        /\ lastOp = "shed" =>
              /\ \A p \in PresentPairs : meth[p] = Original
              /\ Sinks = {}
        /\ lastOp \in {"init", "add"} =>
              /\ \A p \in PresentPairs : meth[p] = TimingDecorator(Original)
              /\ pc = "returned" => Cardinality(Sinks) = 1

\* Two full rounds of shed_timing / add_timing, then a call that sent its message.
C1_Witness ==
    /\ alt
    /\ rounds >= 2
    /\ lastOp = "add"
    /\ pc = "returned"
    /\ Cardinality(Sinks) = 1

\* C2: every invocation of a wrapper calls its func once, with the caller's
\* arguments (the bound instance stripped), sends one message to sink after func
\* has returned and before it returns itself, and returns func's result; when func
\* raises, the wrapper raises and has sent nothing.  The original method runs once
\* per call, with the caller's arguments.
C2_WrapperCallsOnceSinksOnce ==
    /\ Cardinality(BaseRuns) <= 1
    /\ \A i \in BaseRuns : events[i].args = cur.args
    /\ pc = "returned" => (Cardinality(BaseRuns) = 1 /\ ret = cur.result)
    /\ pc = "raised" => Sinks = {}
    /\ \A k \in WrapperLayers :
          /\ Cardinality(EvIdx("callfunc", k)) <= 1
          /\ Cardinality(EvIdx("sink", k)) <= 1
          /\ \A c \in EvIdx("callfunc", k) : events[c].args = cur.args
          /\ \A s \in EvIdx("sink", k) :
                /\ \E f \in FuncReturned(k) : f < s
                /\ events[s].msg.method = cur.method
                /\ events[s].msg.name = Take(StepName(cur.step), NameLimit)
          /\ \A j \in EvIdx("return", k) :
                \E c \in EvIdx("callfunc", k), f \in FuncReturned(k), s \in EvIdx("sink", k) :
                    /\ c < f /\ f < s /\ s < j
                    /\ events[j].val = events[f].val
          /\ \A j \in EvIdx("raise", k) :
                /\ EvIdx("sink", k) = {}
                /\ Cardinality(EvIdx("callfunc", k)) = 1

\* A call through two wrappers has returned an array: each wrapper sent its message.
C2_Witness ==
    /\ pc = "returned"
    /\ ret = "array"
    /\ Cardinality(Sinks) = 2
    /\ cur.step = 2

\* C9: every step method carries at most one timing wrapper, and whenever
\* shed_timing is the last operation performed no method is wrapped and no call
\* sends a message to sink.
C9_AtMostOneWrapper ==
    /\ \A p \in PresentPairs : meth[p].depth <= 1
    /\ lastOp = "shed" =>
          /\ \A p \in PresentPairs : meth[p].depth = 0
          /\ Sinks = {}

\* C10: shed_timing on a pipeline whose timing has already been shed does not raise
\* and leaves every step method as it is, the original.
C10_ShedIdempotent ==
    [][ ( /\ lastOp = "shed"
          /\ lastExc = "none"
          /\ \A p \in PresentPairs : meth[p] = Original
          /\ ShedTiming )
        => (lastExc' = "none" /\ meth' = meth) ]_vars

-----------------------------------------------------------------------------
(***************************************************************************)
(* Properties of PipelineY.                                                *)
(***************************************************************************)

YCallsNamed(names) == {i \in DOMAIN yLog : yLog[i].call \in names}

\* C3: the targets that reach the base Pipeline are the transformed targets, never
\* the raw y.  fit (also inside fit_transform) calls y_transformer.fit(y), then
\* y_transformer.transform(y), then base fit with the targets transformed by the
\* transformer as just fitted; score calls y_transformer.transform(y) and base
\* score with the result, and never y_transformer.fit.
C3_TargetsTransformed ==
    /\ \A i \in YCallsNamed({"base.fit", "base.score"}) :
          /\ yLog[i].b # RawY(yOp.y)
          /\ \E param \in {ytParam, TransformerFit(yOp.y)} :
                yLog[i].b = YTransform(param, RawY(yOp.y))
    /\ yOp.op \in {"fit", "fit_transform"} =>
          /\ Len(yLog) >= 3
          /\ yLog[1] = YCall("y_transformer.fit", RawY(yOp.y), "none")
          /\ yLog[2] = YCall("y_transformer.transform", RawY(yOp.y), "none")
          /\ yLog[3] = YCall("base.fit", yOp.X, YTransform(TransformerFit(yOp.y), RawY(yOp.y)))
          /\ YCallsNamed({"base.fit"}) = {3}
    /\ yOp.op = "score" =>
          /\ YCallsNamed({"y_transformer.fit", "base.fit"}) = {}
          /\ \A i \in YCallsNamed({"base.score"}) :
                /\ i = 2
                /\ yLog[1] = YCall("y_transformer.transform", RawY(yOp.y), "none")
                /\ yLog[i] = YCall("base.score", yOp.X, YTransform(ytParam, RawY(yOp.y)))
          /\ yExc = "none" => YCallsNamed({"base.score"}) = {2}

\* score has returned for targets other than those y_transformer was fitted on.
C3_Witness ==
    /\ yOp.op = "score"
    /\ yExc = "none"
    /\ ytParam # TransformerFit(yOp.y)
    /\ YCallsNamed({"base.score"}) = {2}

\* C4: predict(X, inverse) with inverse false never calls
\* y_transformer.inverse_transform and returns the base prediction unchanged; with
\* inverse true it returns y_inverse_transform of the base prediction.
C4_PredictInverse ==
    yOp.op = "predict" =>
        /\ ~yOp.inverse =>
              /\ YCallsNamed({"y_transformer.inverse_transform"}) = {}
              /\ yExc = "none" => yRet = BasePredict(baseModel, yOp.X)
        /\ (yOp.inverse /\ yExc = "none") =>
              /\ yRet = YInverseTransform(ytParam, BasePredict(baseModel, yOp.X))
              /\ yLog[Len(yLog)] = YCall("y_transformer.inverse_transform",
                                         BasePredict(baseModel, yOp.X), "none")

\* predict(X, inverse=True) has returned.
C4_Witness ==
    /\ yOp.op = "predict"
    /\ yOp.inverse
    /\ yExc = "none"
    /\ yRet = YInverseTransform(ytParam, BasePredict(baseModel, yOp.X))

-----------------------------------------------------------------------------
(***************************************************************************)
(* Properties of DictFeatureUnion.                                         *)
(***************************************************************************)

\* The transformers that are run, and the keys each contributes to the result.
RunPositions == {i \in DOMAIN tlist : tlist[i].kind # "none"}

KeysOf(i) == IF tlist[i].kind = "dict" THEN tlist[i].keys ELSE {tlist[i].name}

ValueOf(i, k) ==
    IF tlist[i].kind = "dict" THEN Output(tlist, i, dOp.X).val[k]
    ELSE Output(tlist, i, dOp.X).val

NoCollision == \A i, j \in RunPositions : i # j => KeysOf(i) \cap KeysOf(j) = {}

\* C5: transform and fit_transform return a dictionary in which, for every
\* transformer that is run and whose output is not a dictionary, the key equal to
\* its step name maps to the output of that same transformer (names and nested keys
\* not colliding), also when other entries are None; and the empty dictionary when
\* no transformer is run.
C5_NameMapsToOwnOutput ==
    dOp.op # "none" =>
        /\ RunPositions = {} => DOMAIN dRet = {}
        /\ NoCollision =>
              \A i \in RunPositions :
                  tlist[i].kind = "plain" =>
                      /\ tlist[i].name \in DOMAIN dRet
                      /\ dRet[tlist[i].name] = ValueOf(i, tlist[i].name)

\* C6: dictionary outputs are merged flat: the key set of the result is the union
\* of the names of the non-dictionary outputs and the keys of the dictionary
\* outputs, and on a collision the value of the later transformer is kept.
C6_NestedMergedFlat ==
    dOp.op # "none" =>
        /\ DOMAIN dRet = UNION {KeysOf(i) : i \in RunPositions}
        /\ \A k \in DOMAIN dRet :
              \E i \in RunPositions :
                  /\ k \in KeysOf(i)
                  /\ \A j \in RunPositions : k \in KeysOf(j) => j <= i
                  /\ dRet[k] = ValueOf(i, k)

-----------------------------------------------------------------------------
(***************************************************************************)
(* Properties of DataFrameFeatureUnion.                                    *)
(***************************************************************************)

\* The container the documented rule gives for the outputs of the run transformers.
RuleContainer(outs) ==
    IF outs = <<>> THEN "ndarray"
    ELSE IF \E i \in DOMAIN outs : outs[i] = "sparse" THEN "csr"
    ELSE IF \A i \in DOMAIN outs : outs[i] \in {"dataframe", "series"} THEN "dataframe"
    ELSE "ndarray"

FollowsRule(r) ==
    r # NoResult =>
        /\ r.container = RuleContainer(DFRunAll(dfList))
        /\ r.rows \in 1..MaxSamples
        /\ r.cols = Len(DFRunAll(dfList))
        /\ DFRunAll(dfList) = <<>> => (r.container = "ndarray" /\ r.cols = 0)

-----------------------------------------------------------------------------
(***************************************************************************)
(* Properties of SliceMixin.                                               *)
(***************************************************************************)

\* The list the claim says is indexed: 'steps' when the object has it, else
\* 'transformer_list'.
Indexed(o) == IF o.steps.has THEN o.steps.list ELSE o.transformer_list.list

InRange(l, i) == (0 - Len(l)) <= i /\ i < Len(l)

\* C8: __getitem__ raises AttributeError when the object has neither attribute;
\* otherwise, with 'steps' taking precedence over 'transformer_list', a name gives
\* an estimator stored under that name, an integer i (negative allowed) the
\* estimator at position i, and a slice a sub-list of the pairs.
C8_GetItem ==
    sIdx # StrIdx("") =>
        IF ~sObj.steps.has /\ ~sObj.transformer_list.has
        THEN sExc = "AttributeError"
        ELSE LET l == Indexed(sObj)
             IN  /\ (sIdx.type = "str" /\ \E i \in DOMAIN l : l[i][1] = sIdx.s) =>
                        /\ sExc = "none"
                        /\ \E i \in DOMAIN l : l[i][1] = sIdx.s /\ sRet = EstRet(l[i][2])
                 /\ (sIdx.type = "int" /\ InRange(l, sIdx.i)) =>
                        /\ sExc = "none"
                        /\ sRet = EstRet(l[IF sIdx.i < 0 THEN sIdx.i + Len(l) + 1
                                           ELSE sIdx.i + 1][2])
                 /\ sIdx.type = "slice" =>
                        /\ sExc = "none"
                        /\ \E a \in 1..(Len(l) + 1), b \in 0..Len(l) :
                              sRet = ListRet(SubSeq(l, a, b))

====
